---- MODULE Spec2Model ----
(***************************************************************************)
(* made: a clipboard-history tool.  A hotkey thread (Alt+C) reads the      *)
(* clipboard and pushes the text into CONFIG (src/src/config.rs); the      *)
(* main thread runs the terminal UI (src/src/main.rs), which filters the   *)
(* history with match_pinyin (src/src/pinyin.rs) and copies the selected   *)
(* entry back to the clipboard.                                            *)
(*                                                                         *)
(* A Rust String is a sequence of characters, each character a one-element *)
(* TLA+ string.  Option<T> is a sequence: <<>> is None, <<x>> is Some(x).  *)
(* Indices (selected, filtered_indices, character_index) are 0-based as in *)
(* the source; a sequence s is read at s[i + 1].                           *)
(***************************************************************************)
EXTENDS Integers, Sequences, FiniteSets, TLC

\* Bounds of the model.
MaxQuery == 2   \* most characters typed into search_text
MaxTexts == 2   \* most entries of Config.texts
MaxBelow == 1   \* most steps select_previous takes down from usize::MAX

None == <<>>
Some(x) == <<x>>

\* The CJK character U+516B (pinyin "ba"); three bytes in UTF-8.
Hanzi == "U+516B"

\* Characters the keyboard delivers as KeyCode::Char.
KeyChars == {"b", " "}

\* Texts other programs put on the system clipboard.
ClipTexts == {<<" ", "a">>, <<Hanzi>>}

\* Characters of a keyboard with an input method: KeyChars, "a" and the
\* Chinese character.
EditChars == {"a", "b", " ", Hanzi}

\* The texts of a made.toml that earlier runs have written.
StoredTexts == <<<<"b">>, <<Hanzi>>, <<"a", "b">>>>

\* ListState::select_last stores usize::MAX; any value beyond every list
\* length behaves the same in the comparisons made on it.
UsizeMax == 1000000

----------------------------------------------------------------------------
(* str::trim *)

is_whitespace(c) == c = " "

RECURSIVE trim_start(_)
trim_start(s) ==
    IF s = <<>> THEN s
    ELSE IF is_whitespace(Head(s)) THEN trim_start(Tail(s)) ELSE s

RECURSIVE trim_end(_)
trim_end(s) ==
    IF s = <<>> THEN s
    ELSE IF is_whitespace(s[Len(s)]) THEN trim_end(SubSeq(s, 1, Len(s) - 1)) ELSE s

trim(s) == trim_end(trim_start(s))

----------------------------------------------------------------------------
(* config.rs *)

\* Vec::contains
contains(v, x) == \E i \in 1..Len(v) : v[i] = x

\* toml::to_string_pretty(&Config): one line per array element.
Quote(s) == <<"\"">> \o s \o <<"\"", ",">>
to_string_pretty(ts) ==
    <<<<"texts = [">>>> \o [i \in 1..Len(ts) |-> Quote(ts[i])] \o <<<<"]">>>>

\* toml::from_str::<Config>: Some(texts), or None when the content does not parse.
Unquote(line) == SubSeq(line, 2, Len(line) - 2)
IsQuoted(line) ==
    /\ Len(line) >= 3
    /\ line[1] = "\""
    /\ line[Len(line) - 1] = "\""
    /\ line[Len(line)] = ","
from_str(content) ==
    IF /\ Len(content) >= 2
       /\ content[1] = <<"texts = [">>
       /\ content[Len(content)] = <<"]">>
       /\ \A i \in 2..(Len(content) - 1) : IsQuoted(content[i])
    THEN Some([i \in 1..(Len(content) - 2) |-> Unquote(content[i + 1])])
    ELSE None

\* Config::push_text putting the new text first where the source pushes it
\* at the end
push_text_front(ts, text) ==
    IF ~contains(ts, text) THEN <<trim(text)>> \o ts ELSE ts

\* Config::push_text, the texts it leaves.
push_text(ts, text) ==
    IF ~contains(ts, text) THEN Append(ts, trim(text)) ELSE ts

\* Config::save that writes the list as it was before the push.
save_stale(ts) == to_string_pretty(SubSeq(ts, 1, Len(ts) - 1))

\* Config::save, the content written to CONFIG_PATH.
save(ts) == to_string_pretty(ts)

----------------------------------------------------------------------------
(* pinyin.rs *)

\* The pinyin of a character (PinyinNotation::Ascii), <<>> when it has none.
Pinyin(c) == IF c = Hanzi THEN <<"b", "a">> ELSE <<>>

IsPrefix(p, s) == Len(p) <= Len(s) /\ SubSeq(s, 1, Len(p)) = p

\* The whole of input is matched by a prefix of text: each character of text
\* takes itself, its full pinyin (Ascii) or the first letter of its pinyin
\* (AsciiFirstLetter) from the input.
RECURSIVE MatchFrom(_, _)
MatchFrom(input, text) ==
    IF input = <<>> THEN TRUE
    ELSE IF text = <<>> THEN FALSE
    ELSE LET c == Head(text)
             py == Pinyin(c)
         IN \/ Head(input) = c /\ MatchFrom(Tail(input), Tail(text))
            \/ /\ py # <<>>
               /\ IsPrefix(py, input)
               /\ MatchFrom(SubSeq(input, Len(py) + 1, Len(input)), Tail(text))
            \/ /\ py # <<>>
               /\ Head(input) = Head(py)
               /\ MatchFrom(Tail(input), Tail(text))

\* match_pinyin: PinyinMatcher::is_match finds the input anywhere in text.
match_pinyin(input, text) ==
    \E k \in 1..(Len(text) + 1) : MatchFrom(input, SubSeq(text, k, Len(text)))

----------------------------------------------------------------------------
(* main.rs: the pure parts of Tui *)

\* char::len_utf8
len_utf8(c) == IF c = Hanzi THEN 3 ELSE 1

\* str::len, in bytes
RECURSIVE byte_len(_)
byte_len(s) == IF s = <<>> THEN 0 ELSE len_utf8(Head(s)) + byte_len(Tail(s))

\* Tui::byte_index: the byte offset of character number ci, or the byte
\* length when the string has no such character.
byte_index(s, ci) ==
    IF ci < Len(s) THEN byte_len(SubSeq(s, 1, ci)) ELSE byte_len(s)

\* String::insert at a byte index (always a character boundary here).
insert(s, idx, ch) ==
    LET k == CHOOSE k \in 0..Len(s) : byte_len(SubSeq(s, 1, k)) = idx
    IN SubSeq(s, 1, k) \o <<ch>> \o SubSeq(s, k + 1, Len(s))

Min(a, b) == IF a < b THEN a ELSE b

\* Tui::clamp_cursor
clamp_cursor(s, new_cursor_pos) == Min(new_cursor_pos, Len(s))

saturating_sub(n) == IF n = 0 THEN 0 ELSE n - 1

\* Tui::enter_char moving the cursor by the bytes of the new character where
\* the source moves it by one character
enter_char_bytes(s, ci, new_char) ==
    LET t == insert(s, byte_index(s, ci), new_char)
    IN [search_text |-> t,
        character_index |-> clamp_cursor(t, ci + len_utf8(new_char))]

\* Tui::enter_char: the new search_text and character_index.
enter_char(s, ci, new_char) ==
    LET t == insert(s, byte_index(s, ci), new_char)
    IN [search_text |-> t, character_index |-> clamp_cursor(t, ci + 1)]

\* chars().take(n) and chars().skip(n)
take(s, n) == SubSeq(s, 1, Min(n, Len(s)))
skip(s, n) == SubSeq(s, n + 1, Len(s))

\* Tui::delete_char
delete_char(s, ci) ==
    IF ci # 0
    THEN LET t == take(s, ci - 1) \o skip(s, ci)
         IN [search_text |-> t, character_index |-> clamp_cursor(t, saturating_sub(ci))]
    ELSE [search_text |-> s, character_index |-> ci]

\* The filter_map of rebuild_filter over items[from..], in order.
RECURSIVE filter_from(_, _, _)
\* The filter_map of rebuild_filter counting the entries from one where
\* enumerate counts them from zero
RECURSIVE filter_from_one_based(_, _, _)
filter_from_one_based(search, its, from) ==
    IF from >= Len(its) THEN <<>>
    ELSE (IF match_pinyin(search, its[from + 1]) THEN <<from + 1>> ELSE <<>>)
             \o filter_from_one_based(search, its, from + 1)

filter_from(search, its, from) ==
    IF from >= Len(its) THEN <<>>
    ELSE (IF match_pinyin(search, its[from + 1]) THEN <<from>> ELSE <<>>)
             \o filter_from(search, its, from + 1)

\* Tui::rebuild_filter without the trim of search_text.
rebuild_filter_untrimmed(s, its) ==
    IF trim(s) = <<>>
    THEN [filtered_indices |-> <<>>, selected |-> None]
    ELSE LET f == filter_from(s, its, 0)
         IN [filtered_indices |-> f,
             selected |-> IF f = <<>> THEN None ELSE Some(0)]

\* Tui::rebuild_filter: the new filtered_indices and selection.
rebuild_filter(s, its) ==
    LET search == trim(s)
    IN IF search = <<>>
       THEN [filtered_indices |-> <<>>, selected |-> None]
       ELSE LET f == filter_from(search, its, 0)
            IN [filtered_indices |-> f,
                selected |-> IF f = <<>> THEN None ELSE Some(0)]

\* Tui::select_next stopping at the last entry where the source wraps to the
\* first
select_next_clamped(sel, f) ==
    IF Len(f) = 0 THEN sel
    ELSE IF sel # None /\ sel[1] + 1 < Len(f) THEN Some(sel[1] + 1)
    ELSE Some(Len(f) - 1)

\* Tui::select_next, where `i + 1` does not overflow.
select_next(sel, f) ==
    IF Len(f) = 0 THEN sel
    ELSE IF sel # None /\ sel[1] + 1 < Len(f) THEN Some(sel[1] + 1)
    ELSE Some(0)

\* Tui::select_previous
select_previous(sel, f) ==
    IF Len(f) = 0 THEN sel
    ELSE IF sel = None \/ sel = Some(0) THEN Some(Len(f) - 1)
    ELSE Some(sel[1] - 1)

\* ratatui's List::render on the state: an empty list clears the selection and
\* a selection past the end moves to the last item; nothing is touched when
\* the list area is empty.
render_list(sel, f, area_is_empty) ==
    IF area_is_empty THEN sel
    ELSE IF f = <<>> THEN None
    ELSE IF sel # None /\ sel[1] >= Len(f) THEN Some(Len(f) - 1)
    ELSE sel

----------------------------------------------------------------------------
(* The state *)

VARIABLES
    process,            \* "running", or how the process ended
    texts,              \* CONFIG: Config.texts
    file,               \* the content of CONFIG_PATH (made.toml)
    config_lock,        \* holder of the CONFIG mutex: "none", "hotkey", "ui"
    config_poisoned,    \* the CONFIG mutex is poisoned
    clipboard,          \* the text on the system clipboard, None when it holds no text
    clipboard_lock,     \* holder of the CLIPBOARD mutex
    clipboard_poisoned, \* the CLIPBOARD mutex is poisoned
    UPDATE_TUI_TEXT,    \* the AtomicBool
    hk_pc,              \* where the hotkey thread is
    hk_text,            \* the callback's local text
    ui_pc,              \* where the main thread is
    exit,               \* Tui.exit
    search_text,        \* Tui.search_text
    character_index,    \* Tui.character_index
    items,              \* Tui.text_list.items
    selected,           \* Tui.text_list.state.selected()
    filtered_indices    \* Tui.filtered_indices

config_vars == <<texts, file, config_lock, config_poisoned>>
clipboard_vars == <<clipboard, clipboard_lock, clipboard_poisoned>>
hk_vars == <<hk_pc, hk_text>>
tui_vars == <<exit, search_text, character_index, items, selected, filtered_indices>>
vars == <<process, config_vars, clipboard_vars, UPDATE_TUI_TEXT, hk_vars, ui_pc, tui_vars>>

\* main has created the single instance and spawned the hotkey thread; CONFIG
\* has opened a made.toml that holds no text yet.
Init ==
    /\ process = "running"
    /\ texts = <<>>
    /\ file = to_string_pretty(<<>>)
    /\ config_lock = "none"
    /\ config_poisoned = FALSE
    /\ clipboard = None
    /\ clipboard_lock = "none"
    /\ clipboard_poisoned = FALSE
    /\ UPDATE_TUI_TEXT = FALSE
    /\ hk_pc = "register"
    /\ hk_text = <<>>
    /\ ui_pc = "default"
    /\ exit = FALSE
    /\ search_text = <<>>
    /\ character_index = 0
    /\ items = <<>>
    /\ selected = None
    /\ filtered_indices = <<>>

\* The program started on the made.toml of earlier runs, the hotkey
\* registered and its thread in event_loop.
InitStored ==
    /\ process = "running"
    /\ texts = StoredTexts
    /\ file = to_string_pretty(StoredTexts)
    /\ config_lock = "none"
    /\ config_poisoned = FALSE
    /\ clipboard = None
    /\ clipboard_lock = "none"
    /\ clipboard_poisoned = FALSE
    /\ UPDATE_TUI_TEXT = FALSE
    /\ hk_pc = "wait"
    /\ hk_text = <<>>
    /\ ui_pc = "default"
    /\ exit = FALSE
    /\ search_text = <<>>
    /\ character_index = 0
    /\ items = <<>>
    /\ selected = None
    /\ filtered_indices = <<>>

----------------------------------------------------------------------------
(* The environment *)

\* Another program puts a text, or something that is no text, on the clipboard.
OsCopy ==
    /\ process = "running"
    /\ \E c \in {None} \cup {Some(t) : t \in ClipTexts} :
          /\ c # clipboard
          /\ clipboard' = c
    /\ UNCHANGED <<process, config_vars, clipboard_lock, clipboard_poisoned,
                   UPDATE_TUI_TEXT, hk_vars, ui_pc, tui_vars>>

----------------------------------------------------------------------------
(* The hotkey thread: main.rs 38-49 *)

\* A panic on the hotkey thread.  A build that unwinds ends the thread and
\* poisons the mutexes whose guards it drops; a build with panic = "abort"
\* ends the process.
HkPanic(poisons_clipboard, poisons_config) ==
    \/ /\ hk_pc' = "dead"
       /\ clipboard_lock' = IF poisons_clipboard THEN "none" ELSE clipboard_lock
       /\ clipboard_poisoned' = (clipboard_poisoned \/ poisons_clipboard)
       /\ config_lock' = IF poisons_config THEN "none" ELSE config_lock
       /\ config_poisoned' = (config_poisoned \/ poisons_config)
       /\ process' = process
    \/ /\ process' = "aborted"
       /\ UNCHANGED <<hk_pc, clipboard_lock, clipboard_poisoned, config_lock,
                      config_poisoned>>

\* hkm.register_hotkey(..).unwrap()
HkRegister ==
    /\ process = "running"
    /\ hk_pc = "register"
    /\ \/ /\ hk_pc' = "wait"
          /\ UNCHANGED <<process, config_lock, config_poisoned, clipboard_lock,
                         clipboard_poisoned>>
       \/ HkPanic(FALSE, FALSE)
    /\ UNCHANGED <<texts, file, clipboard, UPDATE_TUI_TEXT, hk_text, ui_pc, tui_vars>>

\* hkm.event_loop(): Alt+C is pressed and the callback starts.
HkHotkey ==
    /\ process = "running"
    /\ hk_pc = "wait"
    /\ Len(texts) < MaxTexts
    /\ hk_pc' = "clipboard_lock"
    /\ UNCHANGED <<process, config_vars, clipboard_vars, UPDATE_TUI_TEXT, hk_text,
                   ui_pc, tui_vars>>

\* CLIPBOARD.lock().unwrap(): only this thread ever poisons the mutex.
HkLockClipboard ==
    /\ process = "running"
    /\ hk_pc = "clipboard_lock"
    /\ clipboard_lock = "none"
    /\ clipboard_lock' = "hotkey"
    /\ hk_pc' = "get_text"
    /\ UNCHANGED <<process, config_vars, clipboard, clipboard_poisoned,
                   UPDATE_TUI_TEXT, hk_text, ui_pc, tui_vars>>

\* The callback keeping the guard of CLIPBOARD in a variable that lives to
\* the end of the callback, where the source drops it with the statement
HkGetTextOk_keeps_guard ==
    /\ process = "running"
    /\ hk_pc = "get_text"
    /\ clipboard # None
    /\ hk_text' = clipboard[1]
    /\ clipboard_lock' = clipboard_lock
    /\ hk_pc' = "config_lock"
    /\ UNCHANGED <<process, config_vars, clipboard, clipboard_poisoned,
                   UPDATE_TUI_TEXT, ui_pc, tui_vars>>

\* .get_text() returned Ok(text); the guard is dropped at the end of line 42.
HkGetTextOk ==
    /\ process = "running"
    /\ hk_pc = "get_text"
    /\ clipboard # None
    /\ hk_text' = clipboard[1]
    /\ clipboard_lock' = "none"
    /\ hk_pc' = "config_lock"
    /\ UNCHANGED <<process, config_vars, clipboard, clipboard_poisoned,
                   UPDATE_TUI_TEXT, ui_pc, tui_vars>>

\* .get_text() returned Err (no text on the clipboard, or the clipboard could
\* not be opened): .unwrap() panics while the guard is alive.
HkGetTextErr ==
    /\ process = "running"
    /\ hk_pc = "get_text"
    /\ HkPanic(TRUE, FALSE)
    /\ UNCHANGED <<texts, file, clipboard, UPDATE_TUI_TEXT, hk_text, ui_pc, tui_vars>>

\* CONFIG.lock().unwrap()
HkLockConfig ==
    /\ process = "running"
    /\ hk_pc = "config_lock"
    /\ config_lock = "none"
    /\ config_lock' = "hotkey"
    /\ hk_pc' = "push_text"
    /\ UNCHANGED <<process, texts, file, config_poisoned, clipboard_vars,
                   UPDATE_TUI_TEXT, hk_text, ui_pc, tui_vars>>

\* .push_text(text) returns: the text was there already, or it was pushed and
\* save wrote the file.  The guard is dropped at the end of line 43.
HkPushText ==
    /\ process = "running"
    /\ hk_pc = "push_text"
    /\ texts' = push_text(texts, hk_text)
    /\ file' = IF texts' # texts THEN save(texts') ELSE file
    /\ config_lock' = "none"
    /\ hk_text' = <<>>
    /\ hk_pc' = "set_flag"
    /\ UNCHANGED <<process, config_poisoned, clipboard_vars, UPDATE_TUI_TEXT,
                   ui_pc, tui_vars>>

\* .push_text(text) pushed the text and std::fs::write failed in save, leaving
\* the file as it was or truncated: .expect() panics while the guard is alive.
HkPushTextSaveErr ==
    /\ process = "running"
    /\ hk_pc = "push_text"
    /\ ~contains(texts, hk_text)
    /\ texts' = push_text(texts, hk_text)
    /\ file' \in {file, <<>>}
    /\ hk_text' = <<>>
    /\ HkPanic(FALSE, TRUE)
    /\ UNCHANGED <<clipboard, UPDATE_TUI_TEXT, ui_pc, tui_vars>>

\* UPDATE_TUI_TEXT.store(true, Relaxed); the callback returns.
HkSetFlag ==
    /\ process = "running"
    /\ hk_pc = "set_flag"
    /\ UPDATE_TUI_TEXT' = TRUE
    /\ hk_pc' = "wait"
    /\ UNCHANGED <<process, config_vars, clipboard_vars, hk_text, ui_pc, tui_vars>>

----------------------------------------------------------------------------
(* The main thread: Tui::default and Tui::run, main.rs 73-166 *)

shared_vars == <<config_vars, clipboard_vars, UPDATE_TUI_TEXT, hk_vars>>

\* Tui::default, line 75: CONFIG.lock().unwrap() panics on a poisoned mutex.
UIDefaultLock ==
    /\ process = "running"
    /\ ui_pc = "default"
    /\ config_lock = "none"
    /\ IF config_poisoned
       THEN process' = "panicked" /\ UNCHANGED <<config_lock, ui_pc>>
       ELSE process' = process /\ config_lock' = "ui" /\ ui_pc' = "default_clone"
    /\ UNCHANGED <<texts, file, config_poisoned, clipboard_vars, UPDATE_TUI_TEXT,
                   hk_vars, tui_vars>>

\* Tui::default, line 75: .texts.clone(); the guard is dropped.
UIDefaultClone ==
    /\ process = "running"
    /\ ui_pc = "default_clone"
    /\ items' = texts
    /\ config_lock' = "none"
    /\ ui_pc' = "default_rebuild"
    /\ UNCHANGED <<process, texts, file, config_poisoned, clipboard_vars,
                   UPDATE_TUI_TEXT, hk_vars, exit, search_text, character_index,
                   selected, filtered_indices>>

\* Tui::default, lines 77-90: the fields, then rebuild_filter.
UIDefaultRebuild ==
    /\ process = "running"
    /\ ui_pc = "default_rebuild"
    /\ exit' = FALSE
    /\ search_text' = <<>>
    /\ character_index' = 0
    /\ LET r == rebuild_filter(search_text', items)
       IN /\ filtered_indices' = r.filtered_indices
          /\ selected' = r.selected
    /\ ui_pc' = "draw"
    /\ UNCHANGED <<process, shared_vars, items>>

\* Tui::run, line 97: terminal.draw renders the widget; render_list hands the
\* ListState to ratatui's List.
UIDraw ==
    /\ process = "running"
    /\ ui_pc = "draw"
    /\ \E area_is_empty \in BOOLEAN :
          selected' = render_list(selected, filtered_indices, area_is_empty)
    /\ ui_pc' = "poll"
    /\ UNCHANGED <<process, shared_vars, exit, search_text, character_index, items,
                   filtered_indices>>

\* handle_events, line 116: the poll returns within 250 ms, with an event
\* ready or not; its result is discarded.
UIPoll ==
    /\ process = "running"
    /\ ui_pc = "poll"
    /\ \E event_ready \in BOOLEAN : ui_pc' = "read"
    /\ UNCHANGED <<process, shared_vars, tui_vars>>

\* terminal.draw, event::poll or event::read returns Err: `?` leaves run and
\* main returns the error.
UITerminalErr ==
    /\ process = "running"
    /\ ui_pc \in {"draw", "poll", "read"}
    /\ process' = "exit_err"
    /\ ui_pc' = "done"
    /\ UNCHANGED <<shared_vars, tui_vars>>

\* handle_events, line 119: event::read() blocks until the terminal delivers
\* an event.  One that is no key press, or a key the match does not name.
UIOtherEvent ==
    /\ process = "running"
    /\ ui_pc = "read"
    /\ ui_pc' = "update"
    /\ UNCHANGED <<process, shared_vars, tui_vars>>

\* KeyCode::Esc testing search_text.is_empty() where the source tests
\* search_text.trim().is_empty()
UIKeyEsc_untrimmed ==
    /\ process = "running"
    /\ ui_pc = "read"
    /\ IF search_text = <<>>
       THEN /\ exit' = TRUE
            /\ UNCHANGED <<search_text, filtered_indices, selected>>
       ELSE /\ search_text' = <<>>
            /\ LET r == rebuild_filter(search_text', items)
               IN /\ filtered_indices' = r.filtered_indices
                  /\ selected' = r.selected
            /\ exit' = exit
    /\ ui_pc' = "update"
    /\ UNCHANGED <<process, shared_vars, character_index, items>>

\* KeyCode::Esc
UIKeyEsc ==
    /\ process = "running"
    /\ ui_pc = "read"
    /\ IF trim(search_text) = <<>>
       THEN /\ exit' = TRUE
            /\ UNCHANGED <<search_text, filtered_indices, selected>>
       ELSE /\ search_text' = <<>>
            /\ LET r == rebuild_filter(search_text', items)
               IN /\ filtered_indices' = r.filtered_indices
                  /\ selected' = r.selected
            /\ exit' = exit
    /\ ui_pc' = "update"
    /\ UNCHANGED <<process, shared_vars, character_index, items>>

\* KeyCode::Down: select_next.  `i + 1` on usize::MAX overflows: a panic where
\* overflow checks are on, a wrap to 0 where they are off.
UIKeyDown ==
    /\ process = "running"
    /\ ui_pc = "read"
    /\ IF Len(filtered_indices) # 0 /\ selected = Some(UsizeMax)
       THEN \/ process' = "panicked" /\ UNCHANGED <<selected, ui_pc>>
            \/ process' = process /\ selected' = Some(0) /\ ui_pc' = "update"
       ELSE /\ selected' = select_next(selected, filtered_indices)
            /\ ui_pc' = "update"
            /\ process' = process
    /\ UNCHANGED <<shared_vars, exit, search_text, character_index, items,
                   filtered_indices>>

\* KeyCode::Up: select_previous
UIKeyUp ==
    /\ process = "running"
    /\ ui_pc = "read"
    /\ selected # None => (selected[1] < Len(items) \/ selected[1] > UsizeMax - MaxBelow)
    /\ selected' = select_previous(selected, filtered_indices)
    /\ ui_pc' = "update"
    /\ UNCHANGED <<process, shared_vars, exit, search_text, character_index, items,
                   filtered_indices>>

\* KeyCode::Left
UIKeyLeft ==
    /\ process = "running"
    /\ ui_pc = "read"
    /\ character_index' = clamp_cursor(search_text, saturating_sub(character_index))
    /\ ui_pc' = "update"
    /\ UNCHANGED <<process, shared_vars, exit, search_text, items, selected,
                   filtered_indices>>

\* KeyCode::Right
UIKeyRight ==
    /\ process = "running"
    /\ ui_pc = "read"
    /\ character_index' = clamp_cursor(search_text, character_index + 1)
    /\ ui_pc' = "update"
    /\ UNCHANGED <<process, shared_vars, exit, search_text, items, selected,
                   filtered_indices>>

\* KeyCode::Home: select_first, ListState::select_first
UIKeyHome ==
    /\ process = "running"
    /\ ui_pc = "read"
    /\ selected' = Some(0)
    /\ ui_pc' = "update"
    /\ UNCHANGED <<process, shared_vars, exit, search_text, character_index, items,
                   filtered_indices>>

\* KeyCode::End: select_last, ListState::select_last
UIKeyEnd ==
    /\ process = "running"
    /\ ui_pc = "read"
    /\ selected' = Some(UsizeMax)
    /\ ui_pc' = "update"
    /\ UNCHANGED <<process, shared_vars, exit, search_text, character_index, items,
                   filtered_indices>>

\* KeyCode::Backspace: delete_char, then rebuild_filter
UIKeyBackspace ==
    /\ process = "running"
    /\ ui_pc = "read"
    /\ LET d == delete_char(search_text, character_index)
           r == rebuild_filter(d.search_text, items)
       IN /\ search_text' = d.search_text
          /\ character_index' = d.character_index
          /\ filtered_indices' = r.filtered_indices
          /\ selected' = r.selected
    /\ ui_pc' = "update"
    /\ UNCHANGED <<process, shared_vars, exit, items>>

\* KeyCode::Char(to_insert): enter_char, then rebuild_filter; the key is one
\* of keys
KeyChar(keys) ==
    /\ process = "running"
    /\ ui_pc = "read"
    /\ Len(search_text) < MaxQuery
    /\ \E to_insert \in keys :
          LET e == enter_char(search_text, character_index, to_insert)
              r == rebuild_filter(e.search_text, items)
          IN /\ search_text' = e.search_text
             /\ character_index' = e.character_index
             /\ filtered_indices' = r.filtered_indices
             /\ selected' = r.selected
    /\ ui_pc' = "update"
    /\ UNCHANGED <<process, shared_vars, exit, items>>

UIKeyChar == KeyChar(KeyChars)

\* The same handler on a keyboard that also types "a" and a Chinese character
UIKeyCharEdit == KeyChar(EditChars)

\* The Enter arm indexing items with the selected position itself where the
\* source goes through filtered_indices
real_index_direct(sel, f) ==
    IF sel # None /\ sel[1] < Len(f) THEN Some(sel[1]) ELSE None

\* The index Enter resolves: Some(real_index) when there is a selection and
\* filtered_indices.get(selected) is Some.
real_index(sel, f) ==
    IF sel # None /\ sel[1] < Len(f) THEN Some(f[sel[1] + 1]) ELSE None

\* KeyCode::Enter, lines 154-157: with a selection inside filtered_indices the
\* thread goes on to CLIPBOARD.lock(); otherwise nothing happens.
UIKeyEnter ==
    /\ process = "running"
    /\ ui_pc = "read"
    /\ ui_pc' = IF real_index(selected, filtered_indices) # None
                THEN "clipboard_lock" ELSE "update"
    /\ UNCHANGED <<process, shared_vars, tui_vars>>

\* KeyCode::Enter, line 158: CLIPBOARD.lock().unwrap() panics on a poisoned
\* mutex.
UILockClipboard ==
    /\ process = "running"
    /\ ui_pc = "clipboard_lock"
    /\ clipboard_lock = "none"
    /\ IF clipboard_poisoned
       THEN process' = "panicked" /\ UNCHANGED <<clipboard_lock, ui_pc>>
       ELSE process' = process /\ clipboard_lock' = "ui" /\ ui_pc' = "set_text"
    /\ UNCHANGED <<config_vars, clipboard, clipboard_poisoned, UPDATE_TUI_TEXT,
                   hk_vars, tui_vars>>

\* KeyCode::Enter, line 158: .set_text(text) returned Ok.
UISetTextOk ==
    /\ process = "running"
    /\ ui_pc = "set_text"
    /\ clipboard' = Some(items[real_index(selected, filtered_indices)[1] + 1])
    /\ clipboard_lock' = "none"
    /\ ui_pc' = "update"
    /\ UNCHANGED <<process, config_vars, clipboard_poisoned, UPDATE_TUI_TEXT,
                   hk_vars, tui_vars>>

\* KeyCode::Enter, line 158: .set_text(text) returned Err: `?` leaves
\* handle_events and run, and main returns the error.
UISetTextErr ==
    /\ process = "running"
    /\ ui_pc = "set_text"
    /\ clipboard_lock' = "none"
    /\ process' = "exit_err"
    /\ ui_pc' = "done"
    /\ UNCHANGED <<config_vars, clipboard, clipboard_poisoned, UPDATE_TUI_TEXT,
                   hk_vars, tui_vars>>

\* update_text_list, line 106: UPDATE_TUI_TEXT.swap(false, Relaxed).  On false
\* the loop of line 96 tests exit: run returns Ok, or draws again.
UISwap ==
    /\ process = "running"
    /\ ui_pc = "update"
    /\ UPDATE_TUI_TEXT' = FALSE
    /\ IF UPDATE_TUI_TEXT
       THEN ui_pc' = "config_lock" /\ process' = process
       ELSE IF exit
       THEN ui_pc' = "done" /\ process' = "exit_ok"
       ELSE ui_pc' = "draw" /\ process' = process
    /\ UNCHANGED <<config_vars, clipboard_vars, hk_vars, tui_vars>>

\* update_text_list, line 108: CONFIG.lock().unwrap() panics on a poisoned
\* mutex.
UILockConfig ==
    /\ process = "running"
    /\ ui_pc = "config_lock"
    /\ config_lock = "none"
    /\ IF config_poisoned
       THEN process' = "panicked" /\ UNCHANGED <<config_lock, ui_pc>>
       ELSE process' = process /\ config_lock' = "ui" /\ ui_pc' = "clone"
    /\ UNCHANGED <<texts, file, config_poisoned, clipboard_vars, UPDATE_TUI_TEXT,
                   hk_vars, tui_vars>>

\* update_text_list keeping the guard of CONFIG in a variable that lives to
\* the end of the loop body, where the source drops it with the statement
UIClone_keeps_guard ==
    /\ process = "running"
    /\ ui_pc = "clone"
    /\ items' = texts
    /\ selected' = Some(0)
    /\ config_lock' = config_lock
    /\ ui_pc' = "rebuild"
    /\ UNCHANGED <<process, texts, file, config_poisoned, clipboard_vars,
                   UPDATE_TUI_TEXT, hk_vars, exit, search_text, character_index,
                   filtered_indices>>

\* update_text_list, lines 107-110: the new TextList takes a clone of the texts
\* and a ListState with Some(0) selected; the guard is dropped.
UIClone ==
    /\ process = "running"
    /\ ui_pc = "clone"
    /\ items' = texts
    /\ selected' = Some(0)
    /\ config_lock' = "none"
    /\ ui_pc' = "rebuild"
    /\ UNCHANGED <<process, texts, file, config_poisoned, clipboard_vars,
                   UPDATE_TUI_TEXT, hk_vars, exit, search_text, character_index,
                   filtered_indices>>

\* update_text_list, line 111: rebuild_filter, then the swap again.
UIRebuild ==
    /\ process = "running"
    /\ ui_pc = "rebuild"
    /\ LET r == rebuild_filter(search_text, items)
       IN /\ filtered_indices' = r.filtered_indices
          /\ selected' = r.selected
    /\ ui_pc' = "update"
    /\ UNCHANGED <<process, shared_vars, exit, search_text, character_index, items>>

----------------------------------------------------------------------------
(* The specifications *)

HotkeyThread ==
    \/ HkRegister
    \/ HkLockClipboard
    \/ HkGetTextOk
    \/ HkGetTextErr
    \/ HkLockConfig
    \/ HkPushText
    \/ HkPushTextSaveErr
    \/ HkSetFlag

MainThread ==
    \/ UIDefaultLock
    \/ UIDefaultClone
    \/ UIDefaultRebuild
    \/ UIDraw
    \/ UIPoll
    \/ UILockClipboard
    \/ UISetTextOk
    \/ UISetTextErr
    \/ UISwap
    \/ UILockConfig
    \/ UIClone
    \/ UIRebuild

TerminalEvent ==
    \/ UIOtherEvent
    \/ UIKeyEsc
    \/ UIKeyDown
    \/ UIKeyUp
    \/ UIKeyLeft
    \/ UIKeyRight
    \/ UIKeyHome
    \/ UIKeyEnd
    \/ UIKeyBackspace
    \/ UIKeyChar
    \/ UIKeyEnter

Next ==
    \/ OsCopy
    \/ HkHotkey
    \/ HotkeyThread
    \/ MainThread
    \/ TerminalEvent
    \/ UITerminalErr

Spec == Init /\ [][Next]_vars

\* Each thread takes the steps it can take, and a thread that waits for a
\* mutex gets it when it is free again and again.  The terminal and the
\* hotkey deliver events only when the user acts, and nothing makes the user
\* act.
FairSpec == Spec /\ SF_vars(MainThread) /\ SF_vars(HotkeyThread)

\* The UI on its own: the store holds StoredTexts, the keyboard types
\* EditChars, and the user never presses the hotkey, so UPDATE_TUI_TEXT stays
\* false and update_text_list never reloads.
NextStored ==
    \/ UIDefaultLock
    \/ UIDefaultClone
    \/ UIDefaultRebuild
    \/ UIDraw
    \/ UIPoll
    \/ UITerminalErr
    \/ UIOtherEvent
    \/ UIKeyEsc
    \/ UIKeyDown
    \/ UIKeyUp
    \/ UIKeyLeft
    \/ UIKeyRight
    \/ UIKeyHome
    \/ UIKeyEnd
    \/ UIKeyBackspace
    \/ UIKeyCharEdit
    \/ UIKeyEnter
    \/ UILockClipboard
    \/ UISetTextOk
    \/ UISetTextErr
    \/ UISwap

StoredSpec == InitStored /\ [][NextStored]_vars

----------------------------------------------------------------------------
(* The claims *)

\* Tui::default has returned and run has not: the UI loop is running.
UILoopRunning ==
    /\ process = "running"
    /\ ui_pc \notin {"default", "default_clone", "default_rebuild", "done"}

\* C1: after any sequence of push_text calls, texts differing only in
\* surrounding whitespace included, no two entries of texts are equal.
C1_NoTwoEqualEntries ==
    \A i, j \in 1..Len(texts) : i # j => texts[i] # texts[j]

\* C2: whenever push_text has returned (it pushed, or the text was a
\* duplicate), the entries in the file are the entries of texts, in order.
\* A push_text that is running or that panicked in save has not returned.
C2_WriteThrough ==
    (hk_pc # "push_text" /\ ~config_poisoned) => from_str(file) = Some(texts)

\* C2 witness: push_text has just returned from pushing a second entry.
C2_Witness ==
    /\ hk_pc = "set_flag"
    /\ Len(texts) = 2
    /\ from_str(file) = Some(texts)

\* C3: in every reachable state 0 <= character_index <= the number of
\* characters of search_text.
C3_CursorInBounds ==
    0 <= character_index /\ character_index <= Len(search_text)

\* f is the increasing sequence of exactly the indices i of its with
\* match_pinyin(q, its[i]).
IsFilterOf(f, q, its) ==
    /\ \A k \in 1..Len(f) : f[k] \in 0..(Len(its) - 1)
    /\ \A k \in 1..(Len(f) - 1) : f[k] < f[k + 1]
    /\ \A i \in 0..(Len(its) - 1) :
          match_pinyin(q, its[i + 1]) <=> \E k \in 1..Len(f) : f[k] = i

\* No event or change notification is half done on the Tui: items and
\* filtered_indices belong together.
UIStepCompleted ==
    ui_pc \notin {"default", "default_clone", "default_rebuild", "rebuild"}

\* C4, as claimed: after every completed UI event or change notification the
\* filtered list is empty when the trimmed query is empty, and otherwise it
\* is the increasing sequence of the indices i with matches(query, items[i]).
C4_FilterOfQuery ==
    UIStepCompleted =>
        IF trim(search_text) = <<>>
        THEN filtered_indices = <<>>
        ELSE IsFilterOf(filtered_indices, search_text, items)

\* C4, amended: ... otherwise it is the increasing sequence of the indices i
\* with matches(trimmed query, items[i]).
C4_FilterOfTrimmedQuery ==
    UIStepCompleted =>
        IF trim(search_text) = <<>>
        THEN filtered_indices = <<>>
        ELSE IsFilterOf(filtered_indices, trim(search_text), items)

\* C4 witness: a query with surrounding whitespace selects some of the items
\* and not all of them.
C4_Witness ==
    /\ ui_pc = "update"
    /\ trim(search_text) # <<>>
    /\ trim(search_text) # search_text
    /\ filtered_indices # <<>>
    /\ Len(filtered_indices) < Len(items)

\* The selection is None on an empty filtered list and a position inside the
\* list otherwise.
SelectionInFilter ==
    IF filtered_indices = <<>>
    THEN selected = None
    ELSE selected # None /\ 0 <= selected[1] /\ selected[1] < Len(filtered_indices)

\* C5: after every key event the selection is None when the filtered list is
\* empty and a position 0 <= p < its length otherwise; Home yields position 0
\* and End yields position length - 1.
C5_SelectionAfterKey ==
    [][(ui_pc = "read" /\ ui_pc' \in {"update", "clipboard_lock"}) =>
          /\ SelectionInFilter'
          /\ (UIKeyHome /\ filtered_indices # <<>>) => selected' = Some(0)
          /\ (UIKeyEnd /\ filtered_indices # <<>>) =>
                 selected' = Some(Len(filtered_indices) - 1)]_vars

\* C6: once the hotkey thread has set UPDATE_TUI_TEXT, the running UI loop
\* eventually observes and clears it, also when no key event ever arrives.
C6_ChangeObserved ==
    (UPDATE_TUI_TEXT /\ UILoopRunning) ~> (~UPDATE_TUI_TEXT \/ ~UILoopRunning)

\* C7: whenever UPDATE_TUI_TEXT is false, no capture is between its push and
\* its store of the flag, and the UI is not inside update_text_list, the
\* items of the UI are the texts of CONFIG.
C7_NoLostUpdate ==
    (/\ UILoopRunning
     /\ ~UPDATE_TUI_TEXT
     /\ hk_pc # "set_flag"
     /\ ui_pc \notin {"config_lock", "clone", "rebuild"})
        => items = texts

\* C8: a hotkey event whose clipboard read fails leaves texts, the file and
\* UPDATE_TUI_TEXT unchanged, enters no error state, and the hotkey thread
\* goes on to handle later hotkey events.
C8_ReadFailureDropsCapture ==
    [][HkGetTextErr =>
          /\ UNCHANGED <<texts, file, UPDATE_TUI_TEXT>>
          /\ process' = "running"
          /\ ~clipboard_poisoned'
          /\ hk_pc' = "wait"]_vars

\* C9: there is no reachable state in which the UI loop is running while
\* texts holds an entry that the file does not.
C9_WriteFailureIsFatal ==
    UILoopRunning =>
        \A i \in 1..Len(texts) :
            /\ from_str(file) # None
            /\ contains(from_str(file)[1], texts[i])

\* C10: when Enter is pressed with a valid selection and set_text fails, the
\* UI loop keeps running and search_text, character_index, filtered_indices
\* and the selection are unchanged.
C10_CommitFailureKeepsUI ==
    [][UISetTextErr =>
          /\ process' = "running"
          /\ ui_pc' # "done"
          /\ UNCHANGED <<search_text, character_index, filtered_indices, selected>>]_vars

\* What Esc does when it clears: the query becomes empty, the filter is
\* rebuilt for the empty query (no index and no selection) and exit keeps
\* its value, which is false.
EscClears ==
    /\ search_text' = <<>>
    /\ filtered_indices' = <<>>
    /\ selected' = None
    /\ exit' = exit
    /\ ~exit'

\* What Esc does when it exits: exit is set and the query, the filter and the
\* selection stay as they are.
EscExits ==
    /\ exit' = TRUE
    /\ UNCHANGED <<search_text, filtered_indices, selected>>

\* C11 as stated: Esc on a query of at least one character, spaces included,
\* clears the query, rebuilds the filter and does not set exit; Esc sets exit
\* only on a query of no character, and no step sets exit on another query.
C11_CancelClearsNonEmpty ==
    [][ /\ UIKeyEsc => IF search_text # <<>> THEN EscClears ELSE EscExits
        /\ (exit' /\ ~exit) => search_text = <<>> ]_vars

\* C11: Esc on a query that has a character other than white space clears the
\* query, rebuilds the filter and does not set exit; Esc on a query that is
\* empty or all white space sets exit and leaves the query as it is; no step
\* sets exit on a query with a character other than white space.
C11_CancelClearsNonBlank ==
    [][ /\ UIKeyEsc => IF trim(search_text) # <<>> THEN EscClears ELSE EscExits
        /\ (exit' /\ ~exit) => trim(search_text) = <<>> ]_vars

\* Esc has cleared a query: only that leaves the cursor behind an empty query.
C11_Witness ==
    /\ ui_pc = "update"
    /\ search_text = <<>>
    /\ character_index > 0
    /\ ~exit
    /\ items # <<>>
    /\ filtered_indices = <<>>
    /\ selected = None

\* register_hotkey has returned Err: the hotkey thread is dead and has
\* poisoned no mutex, which only the unwrap of register_hotkey leaves behind.
RegistrationFailed ==
    /\ hk_pc = "dead"
    /\ ~clipboard_poisoned
    /\ ~config_poisoned

\* C12: a failed hotkey registration ends the process before the UI loop is
\* entered: in no state is the UI loop running while the registration has
\* failed.
C12_RegistrationFailureIsFatal ==
    RegistrationFailed => ~UILoopRunning

\* C13: the store only grows at its end: over every step the entries before
\* the step are a prefix of the entries after it, so that an entry keeps the
\* position of its first occurrence and a push adds at most one entry.
C13_AppendOnly ==
    [][ /\ IsPrefix(texts, texts')
        /\ Len(texts') <= Len(texts) + 1 ]_vars

\* A push onto a store that had an entry has returned: the entry it found is
\* in front of the one it added.
C13_Witness ==
    /\ hk_pc = "set_flag"
    /\ Len(texts) = 2
    /\ texts[1] = <<Hanzi>>
    /\ texts[2] = <<"a">>

\* The selection is a position of the filtered list, or there is none.
SelectionIsPosition ==
    selected = None \/ selected[1] \in 0..(Len(filtered_indices) - 1)

\* C14: on a filtered list of length n > 0, Down moves the selected position
\* i to (i + 1) mod n and no selection to 0, Up moves i to (i - 1) mod n and
\* no selection to n - 1; on an empty filtered list Down and Up leave the
\* selection and the rest of the Tui as they are.
C14_CircularNavigation ==
    [][ LET n == Len(filtered_indices)
        IN /\ (UIKeyDown /\ SelectionIsPosition) =>
                 IF n = 0 THEN UNCHANGED tui_vars
                 ELSE /\ selected' = IF selected = None THEN Some(0)
                                     ELSE Some((selected[1] + 1) % n)
                      /\ UNCHANGED <<exit, search_text, character_index,
                                     items, filtered_indices>>
           /\ (UIKeyUp /\ SelectionIsPosition) =>
                 IF n = 0 THEN UNCHANGED tui_vars
                 ELSE /\ selected' = IF selected = None THEN Some(n - 1)
                                     ELSE Some((selected[1] + n - 1) % n)
                      /\ UNCHANGED <<exit, search_text, character_index,
                                     items, filtered_indices>> ]_vars

\* The last of three filtered entries is selected after a key: Up has wrapped
\* from the first entry or Down has walked there.
C14_Witness ==
    /\ ui_pc = "update"
    /\ Len(filtered_indices) = 3
    /\ selected = Some(2)

\* C15: the text set_text hands to the clipboard is items[filtered_indices[p]]
\* for the selected position p, and the Tui is left as it is; Enter with no
\* selection, or with a selection outside the filtered list, writes nothing
\* and changes no state, and Enter with a selected position goes on to the
\* clipboard.
C15_CommitIndirection ==
    [][ /\ UISetTextOk =>
              /\ selected # None
              /\ SelectionIsPosition
              /\ clipboard' =
                    Some(items[filtered_indices[selected[1] + 1] + 1])
              /\ UNCHANGED tui_vars
        /\ (UIKeyEnter /\ (selected = None \/ ~SelectionIsPosition)) =>
              /\ ui_pc' = "update"
              /\ UNCHANGED <<process, shared_vars, tui_vars>>
        /\ (UIKeyEnter /\ selected # None /\ SelectionIsPosition) =>
              ui_pc' = "clipboard_lock" ]_vars

\* Enter has written the second stored entry, selected as the first and only
\* entry of the filtered list.
C15_Witness ==
    /\ ui_pc = "update"
    /\ items = StoredTexts
    /\ filtered_indices = <<1>>
    /\ selected = Some(0)
    /\ clipboard = Some(StoredTexts[2])

\* C16: with the cursor c inside a query of n characters (0 <= c <= n), a
\* character key gives the query that has the first c characters as before,
\* the new character at position c and the other characters behind it, and
\* the cursor c + 1; Backspace with c > 0 takes out the character at position
\* c - 1 and gives the cursor c - 1, and with c = 0 it changes neither.
\* Positions count characters, whatever their length in bytes.
C16_CharacterOffsetEditing ==
    [][ LET n == Len(search_text)
            c == character_index
        IN /\ (UIKeyCharEdit /\ c <= n) =>
                 /\ \E x \in EditChars :
                       search_text' = SubSeq(search_text, 1, c) \o <<x>>
                                         \o SubSeq(search_text, c + 1, n)
                 /\ character_index' = c + 1
           /\ (UIKeyBackspace /\ 0 < c /\ c <= n) =>
                 /\ search_text' = SubSeq(search_text, 1, c - 1)
                                      \o SubSeq(search_text, c + 1, n)
                 /\ character_index' = c - 1
           /\ (UIKeyBackspace /\ c = 0) =>
                 UNCHANGED <<search_text, character_index>> ]_vars

\* A one-byte character has been put behind a three-byte one: the cursor
\* counts two characters where the query has four bytes.
C16_Witness ==
    /\ ui_pc = "update"
    /\ search_text = <<Hanzi, "b">>
    /\ character_index = 2
    /\ byte_len(search_text) = 4

\* The UI is in rebuild_filter, called by Tui::default or update_text_list.
UIRebuilding == ui_pc \in {"default_rebuild", "rebuild"}

\* C17: the UI thread holds the mutex of CONFIG only while it clones texts,
\* and not when it filters; the hotkey thread holds it only for push_text; so
\* the hotkey thread never waits for a held mutex of CONFIG while the UI is
\* in rebuild_filter.
C17_LockScope ==
    /\ config_lock = "ui" => ui_pc \in {"default_clone", "clone"}
    /\ config_lock = "hotkey" => hk_pc = "push_text"
    /\ ~(UIRebuilding /\ hk_pc = "config_lock" /\ config_lock # "none")

\* The callback asks for CONFIG while the UI filters its new clone: the mutex
\* is free.
C17_Witness ==
    /\ process = "running"
    /\ ui_pc = "rebuild"
    /\ hk_pc = "config_lock"
    /\ config_lock = "none"

\* Thread t holds the mutex of CLIPBOARD and the mutex of CONFIG.
HoldsBoth(t) == clipboard_lock = t /\ config_lock = t

\* The hotkey thread is in lock() on a mutex that is held.
HkWaits ==
    \/ hk_pc = "clipboard_lock" /\ clipboard_lock # "none"
    \/ hk_pc = "config_lock" /\ config_lock # "none"

\* The UI thread is in lock() on a mutex that is held.
UIWaits ==
    \/ ui_pc = "clipboard_lock" /\ clipboard_lock # "none"
    \/ ui_pc \in {"default", "config_lock"} /\ config_lock # "none"

\* C18: no thread holds the mutex of CLIPBOARD and the mutex of CONFIG at the
\* same time, and the two threads are never both waiting for a held mutex:
\* whenever one waits, the holder of that mutex is running its short critical
\* section.
C18_DeadlockFree ==
    /\ ~HoldsBoth("ui")
    /\ ~HoldsBoth("hotkey")
    /\ ~(HkWaits /\ UIWaits)

\* The callback waits for CLIPBOARD, which the UI holds for set_text.
C18_Witness ==
    /\ process = "running"
    /\ hk_pc = "clipboard_lock"
    /\ clipboard_lock = "ui"
    /\ ui_pc = "set_text"

\* C19: in every state the UI's items are a prefix of CONFIG.texts and every
\* index of filtered_indices is an index of items, so that
\* items[filtered_indices[p]] exists for every position p of the filtered
\* list and is an entry of CONFIG.texts.
C19_SnapshotConsistency ==
    /\ IsPrefix(items, texts)
    /\ \A p \in 1..Len(filtered_indices) :
          /\ filtered_indices[p] \in 0..(Len(items) - 1)
          /\ contains(texts, items[filtered_indices[p] + 1])

\* The store has grown behind the back of the UI, which shows a filtered
\* entry of its older clone.
C19_Witness ==
    /\ process = "running"
    /\ Len(items) < Len(texts)
    /\ filtered_indices # <<>>
    /\ ui_pc = "draw"

\* C20: a failure on the hotkey thread makes no later operation of the UI
\* thread fail: the lock() of Enter with a selected entry on CLIPBOARD and the
\* lock() of update_text_list on CONFIG return the guard, so that set_text and
\* the clone with its rebuild_filter come next and the process runs on,
\* whatever has happened in the callback.
C20_FailureIsolation ==
    [][ /\ UILockClipboard => (process' = "running" /\ ui_pc' = "set_text")
        /\ UILockConfig => (process' = "running" /\ ui_pc' = "clone") ]_vars

====
